---- MODULE Spec2Model ----
(***************************************************************************)
(* Model of the AI-rules installer: the interactive prompt (main), and the *)
(* two installers (cursor.js, copilot.js) that copy a section's index,     *)
(* guides, agents and decisions into IDE rule files.                       *)
(*                                                                         *)
(* JavaScript strings are TLA+ strings; Len, SubSeq and \o act on them     *)
(* character by character, so file names, paths, link rewriting and file   *)
(* contents are computed as the code computes them.                        *)
(***************************************************************************)
EXTENDS Integers, Sequences, FiniteSets, TLC

(***************************************************************************)
(* Bounds of the model.                                                    *)
(***************************************************************************)
\* largest number of entries a source sub-directory holds
MaxFiles == 2
\* number of times the installer is run in a row on the same target
MaxRuns == 2

(***************************************************************************)
(* JavaScript string primitives.                                           *)
(***************************************************************************)
\* s.startsWith(lit, i-1): lit occurs in s at (1-based) position i
StartsWithAt(s, i, lit) ==
  /\ i >= 1
  /\ i + Len(lit) - 1 <= Len(s)
  /\ SubSeq(s, i, i + Len(lit) - 1) = lit

\* s.endsWith(suf)
EndsWith(s, suf) ==
  /\ Len(suf) <= Len(s)
  /\ SubSeq(s, Len(s) - Len(suf) + 1, Len(s)) = suf

\* s.indexOf(lit, i-1) + 1: first position >= i where lit occurs, 0 if none
IndexOf(s, lit, i) ==
  LET found == {p \in i..(Len(s) - Len(lit) + 1) : StartsWithAt(s, p, lit)}
  IN  IF found = {} THEN 0 ELSE CHOOSE p \in found : \A q \in found : p <= q

\* lit occurs somewhere in s
Includes(s, lit) == IndexOf(s, lit, 1) > 0

\* s.replace(lit, rep) with a string pattern: only the first occurrence
ReplaceFirst(s, lit, rep) ==
  LET i == IndexOf(s, lit, 1)
  IN  IF i = 0 THEN s
      ELSE SubSeq(s, 1, i - 1) \o rep \o SubSeq(s, i + Len(lit), Len(s))

RECURSIVE Join(_, _)
\* lines.join(sep)
Join(lines, sep) ==
  IF Len(lines) = 0 THEN ""
  ELSE IF Len(lines) = 1 THEN lines[1]
  ELSE lines[1] \o sep \o Join(Tail(lines), sep)

\* UTF-16 code units of the characters that occur in file names
CodeChars == "-./0123456789:;<=>?@ABCDEFGHIJKLMNOPQRSTUVWXYZ"
LowerChars == "abcdefghijklmnopqrstuvwxyz"
CharCode ==
  [c \in {SubSeq(CodeChars, i, i) : i \in 1..Len(CodeChars)} |->
     CHOOSE n \in 45..90 : SubSeq(CodeChars, n - 44, n - 44) = c]
  @@
  [c \in {SubSeq(LowerChars, i, i) : i \in 1..Len(LowerChars)} |->
     CHOOSE n \in 97..122 : SubSeq(LowerChars, n - 96, n - 96) = c]

RECURSIVE StrLess(_, _)
\* a < b on strings: comparison by code units, a proper prefix is smaller
StrLess(a, b) ==
  IF Len(b) = 0 THEN FALSE
  ELSE IF Len(a) = 0 THEN TRUE
  ELSE IF Head(a) = Head(b) THEN StrLess(Tail(a), Tail(b))
  ELSE CharCode[Head(a)] < CharCode[Head(b)]

RECURSIVE InsertSorted(_, _)
InsertSorted(x, sorted) ==
  IF Len(sorted) = 0 THEN <<x>>
  ELSE IF StrLess(x, sorted[1]) THEN <<x>> \o sorted
  ELSE <<sorted[1]>> \o InsertSorted(x, Tail(sorted))

\* a sort that is forgotten: the list stays in directory order
SortStrings_unsorted(list) == list

RECURSIVE SortStrings(_)
\* array.sort() without a comparator: ascending by code units
SortStrings(list) ==
  IF Len(list) = 0 THEN <<>>
  ELSE InsertSorted(list[Len(list)], SortStrings(SubSeq(list, 1, Len(list) - 1)))

\* array.filter((f) => f.endsWith('.md'))
FilterMd(list) == SelectSeq(list, LAMBDA f : EndsWith(f, ".md"))

(***************************************************************************)
(* Pure functions of installers/cursor.js.                                 *)
(***************************************************************************)
\* a rule whose alwaysApply line is pushed first
toMdcRule_applyFirst(content, description, globs) ==
  Join(<<"---", "alwaysApply: false">>
       \o (IF description # "" THEN <<"description: " \o description>> ELSE <<>>)
       \o (IF globs # "" THEN <<"globs: " \o globs>> ELSE <<>>)
       \o <<"---", "", content>>,
       "\n")

\* a rule that carries its description only when it carries no glob
toMdcRule_oneOf(content, description, globs) ==
  Join(<<"---">>
       \o (IF description # "" /\ globs = "" THEN <<"description: " \o description>> ELSE <<>>)
       \o (IF globs # "" THEN <<"globs: " \o globs>> ELSE <<>>)
       \o <<"alwaysApply: false", "---", "", content>>,
       "\n")

\* a rule whose globs line is written without the test `if (globs)`
toMdcRule_alwaysGlobs(content, description, globs) ==
  Join(<<"---">>
       \o (IF description # "" THEN <<"description: " \o description>> ELSE <<>>)
       \o <<"globs: " \o (IF globs # "" THEN globs ELSE "undefined")>>
       \o <<"alwaysApply: false", "---", "", content>>,
       "\n")

\* toMdcRule({ content, description, globs, alwaysApply = false }): a field
\* that is undefined or the empty string is falsy and adds no line
toMdcRule(content, description, globs) ==
  Join(<<"---">>
       \o (IF description # "" THEN <<"description: " \o description>> ELSE <<>>)
       \o (IF globs # "" THEN <<"globs: " \o globs>> ELSE <<>>)
       \o <<"alwaysApply: false", "---", "", content>>,
       "\n")

\* the same with any directory of six characters accepted in place of
\* "guides", as in /\(\.\/[^/)]{6}\/([^)]+)\.md\)/
GuideLinkEnd_anyDir(s, i) ==
  IF ~(/\ StartsWithAt(s, i, "(./")
       /\ StartsWithAt(s, i + Len("(./guides"), "/")
       /\ \A q \in (i + 3)..(i + 8) : SubSeq(s, q, q) \notin {"/", ")"})
  THEN 0
  ELSE LET j == i + Len("(./guides/")
           e == IndexOf(s, ")", j)
       IN  IF e >= j + Len(".md") + 1 /\ SubSeq(s, e - Len(".md"), e - 1) = ".md"
           THEN e ELSE 0

\* one attempt of /\(\.\/guides\/([^)]+)\.md\)/ at position i: the position
\* of the closing parenthesis of the match, 0 when the pattern does not
\* match there.  [^)]+ is greedy and cannot cross a ")", so the ")" of the
\* pattern is the first one after the prefix, ".md" stands right before it
\* and the capture between them is not empty.
GuideLinkEnd(s, i) ==
  IF ~StartsWithAt(s, i, "(./guides/") THEN 0
  ELSE LET j == i + Len("(./guides/")
           e == IndexOf(s, ")", j)
       IN  IF e >= j + Len(".md") + 1 /\ SubSeq(s, e - Len(".md"), e - 1) = ".md"
           THEN e ELSE 0

RECURSIVE RewriteFrom(_, _, _)
\* the global replace, scanning from position i: the leftmost match at or
\* after i is replaced by `(.cursor/rules/${sectionName}-$1.mdc)` and
\* scanning resumes after it; the text between matches is copied
RewriteFrom(s, sectionName, i) ==
  LET matches == {p \in i..Len(s) : GuideLinkEnd(s, p) > 0}
  IN  IF matches = {} THEN SubSeq(s, i, Len(s))
      ELSE LET m == CHOOSE p \in matches : \A q \in matches : p <= q
               e == GuideLinkEnd(s, m)
           IN  SubSeq(s, i, m - 1)
               \o "(.cursor/rules/" \o sectionName \o "-"
               \o SubSeq(s, m + Len("(./guides/"), e - Len(".md") - 1)
               \o ".mdc)" \o RewriteFrom(s, sectionName, e + 1)

\* rewriteIndexPaths(indexContent, sectionName)
rewriteIndexPaths(indexContent, sectionName) == RewriteFrom(indexContent, sectionName, 1)

(***************************************************************************)
(* Parsing of the answers typed at the prompts (bin: main).                *)
(***************************************************************************)
IsSpace(c) == c \in {" ", "\t", "\n"}
IsDigit(c) == c \in {SubSeq("0123456789", i, i) : i \in 1..10}

RECURSIVE Trim(_)
\* s.trim()
Trim(s) ==
  IF Len(s) = 0 THEN s
  ELSE IF IsSpace(SubSeq(s, 1, 1)) THEN Trim(SubSeq(s, 2, Len(s)))
  ELSE IF IsSpace(SubSeq(s, Len(s), Len(s))) THEN Trim(SubSeq(s, 1, Len(s) - 1))
  ELSE s

RECURSIVE Split(_, _)
\* s.split(sep): "".split(",") is [""]
Split(s, sep) ==
  LET i == IndexOf(s, sep, 1)
  IN  IF i = 0 THEN <<s>>
      ELSE <<SubSeq(s, 1, i - 1)>> \o Split(SubSeq(s, i + Len(sep), Len(s)), sep)

RECURSIVE DigitsValue(_, _)
\* value of the longest prefix of decimal digits of s, acc being the value
\* of the digits already read
DigitsValue(s, acc) ==
  IF Len(s) = 0 \/ ~IsDigit(SubSeq(s, 1, 1)) THEN acc
  ELSE DigitsValue(SubSeq(s, 2, Len(s)), acc * 10 + (CharCode[SubSeq(s, 1, 1)] - CharCode["0"]))

NaN == [nan |-> TRUE, val |-> 0]

\* parseInt(s, 10): optional sign, then the leading decimal digits; NaN when
\* there is no digit
ParseInt(s) ==
  LET t == Trim(s)
      neg == Len(t) > 0 /\ SubSeq(t, 1, 1) = "-"
      signed == Len(t) > 0 /\ SubSeq(t, 1, 1) \in {"-", "+"}
      u == IF signed THEN SubSeq(t, 2, Len(t)) ELSE t
  IN  IF Len(u) = 0 \/ ~IsDigit(SubSeq(u, 1, 1)) THEN NaN
      ELSE [nan |-> FALSE, val |-> IF neg THEN 0 - DigitsValue(u, 0) ELSE DigitsValue(u, 0)]

\* JavaScript comparisons of a parsed number with an integer: every
\* comparison with NaN is false
NumLt(a, n) == ~a.nan /\ a.val < n
NumGt(a, n) == ~a.nan /\ a.val > n
NumGe(a, n) == ~a.nan /\ a.val >= n
NumLe(a, n) == ~a.nan /\ a.val <= n

\* const SECTIONS: Object.keys(SECTIONS) and the name of each section
sectionKeys == <<"tanstack-query", "project-structure">>
SECTIONS ==
  [k \in {"tanstack-query", "project-structure"} |->
     IF k = "tanstack-query" THEN [name |-> "TanStack Query"]
     ELSE [name |-> "Project Structure"]]

\* const IDES: Object.keys(IDES) and the name of each IDE
ideKeys == <<"cursor", "copilot">>
IDES ==
  [k \in {"cursor", "copilot"} |->
     IF k = "cursor" THEN [name |-> "Cursor", installer |-> "./cursor.js"]
     ELSE [name |-> "GitHub Copilot", installer |-> "./copilot.js"]]

\* sectionInput.split(',').map((s) => parseInt(s.trim(), 10))
SectionChoices(sectionInput) ==
  LET parts == Split(sectionInput, ",")
  IN  [i \in 1..Len(parts) |-> ParseInt(Trim(parts[i]))]

\* the section keys main selects for an answer (lines 130-136)
SelectSections(sectionInput) ==
  LET sectionChoices == SectionChoices(sectionInput)
      valid == SelectSeq(sectionChoices,
                         LAMBDA n : NumGe(n, 1) /\ NumLe(n, Len(sectionKeys)))
  IN  IF \E i \in 1..Len(sectionChoices) :
           ~sectionChoices[i].nan /\ sectionChoices[i].val = Len(sectionKeys) + 1
      THEN sectionKeys
      ELSE [i \in 1..Len(valid) |-> sectionKeys[valid[i].val]]

\* position of the last character of the line that holds position i
\* (i - 1 when the line is empty at i)
LineEnd(s, i) ==
  LET nl == IndexOf(s, "\n", i)
  IN  IF nl = 0 THEN Len(s) ELSE nl - 1

RECURSIVE SpaceRunEnd(_, _)
\* first position at or after i that holds no white space (Len(s)+1 if none)
SpaceRunEnd(s, i) ==
  IF i > Len(s) \/ ~IsSpace(SubSeq(s, i, i)) THEN i ELSE SpaceRunEnd(s, i + 1)

RECURSIVE LastBlankBefore(_, _, _)
\* largest q in lo..hi whose character is white space other than a line
\* break, 0 if none: where (.+) starts when \s+ has to give characters back
LastBlankBefore(s, lo, hi) ==
  IF hi < lo THEN 0
  ELSE IF SubSeq(s, hi, hi) \in {" ", "\t"} THEN hi
  ELSE LastBlankBefore(s, lo, hi - 1)

\* one attempt of /^#\s+(.+)$/m at the line start i: the captured title, ""
\* when the pattern does not match there
TitleAt(s, i) ==
  IF ~StartsWithAt(s, i, "#") THEN ""
  ELSE LET p == SpaceRunEnd(s, i + 1)
       IN  IF p = i + 1 THEN ""
           ELSE IF p <= Len(s) THEN SubSeq(s, p, LineEnd(s, p))
           ELSE LET q == LastBlankBefore(s, i + 2, p - 1)
                IN  IF q = 0 THEN "" ELSE SubSeq(s, q, LineEnd(s, q))

RECURSIVE TitleFrom(_, _)
\* the first match of /^#\s+(.+)$/m at a line start at or after i
TitleFrom(s, i) ==
  IF i > Len(s) THEN ""
  ELSE IF TitleAt(s, i) # "" THEN TitleAt(s, i)
  ELSE LET nl == IndexOf(s, "\n", i)
       IN  IF nl = 0 THEN "" ELSE TitleFrom(s, nl + 1)

\* a match that always fails
ExtractTitle_none(content) == ""

\* guideContent.match(/^#\s+(.+)$/m): titleMatch[1], "" for no match
ExtractTitle(content) == TitleFrom(content, 1)

(***************************************************************************)
(* The source tree (the package's sections/ directory) and the target.     *)
(***************************************************************************)
\* path.resolve(__dirname, '..')
packageRoot == "/pkg"
\* process.cwd()
Cwd == "/work"

\* path.resolve(packageRoot, 'sections', section)
SectionDir(section) == packageRoot \o "/sections/" \o section

\* path.resolve(process.cwd(), targetInput || '.')
ResolveTarget(targetInput) ==
  IF targetInput = "" THEN Cwd ELSE Cwd \o "/" \o targetInput

\* section.json: absent, not valid JSON, or an object with the optional
\* fields globs and guideGlobs
NoConfig == [ex |-> FALSE, valid |-> TRUE, globs |-> "", guideGlobs |-> <<>>]
BadConfig == [ex |-> TRUE, valid |-> FALSE, globs |-> "", guideGlobs |-> <<>>]
GlobConfig ==
  [ex |-> TRUE, valid |-> TRUE, globs |-> "src/api/**",
   guideGlobs |-> ("a" :> "**/*.test.ts")]
\* a section.json with "globs" only, and one with "guideGlobs" only
DefaultGlobOnly == [GlobConfig EXCEPT !.guideGlobs = <<>>]
OverridesOnly == [GlobConfig EXCEPT !.globs = ""]

\* entries of the source tree that cannot be read (readFileSync throws)
UnreadableNames == {"locked.md"}
\* files written without a first-level heading
HeadlessNames == {"a-b.md", "guides.md"}

\* fs.readFileSync(path, 'utf-8') of a file of a role sub-directory: every
\* file has its own text, with or without a heading
SourceText(sectionDir, role, name) ==
  LET path == sectionDir \o "/" \o role \o "/" \o name
  IN  IF name \in HeadlessNames THEN "Text of " \o path
      ELSE "# About " \o name \o "\nText of " \o path

\* the file names the role sub-directories are filled from
GuidePool == {"a.md", "a-b.md"}
AgentPool == {"a.md", "guides.md", "locked.md"}
DecisionPool == {"D.md", "D-x.md", "notes.txt"}

\* fs.readdirSync: the entries in the order the file system returns them,
\* any order of any at most MaxFiles names
Listings(pool) ==
  {l \in UNION {[1..n -> pool] : n \in 0..MaxFiles} :
     \A i, j \in 1..Len(l) : i # j => l[i] # l[j]}

NoDir == [ex |-> FALSE, list |-> <<>>]
DirOpts(pool) == {NoDir} \cup {[ex |-> TRUE, list |-> l] : l \in Listings(pool)}

NoIndex == [ex |-> FALSE, text |-> ""]
IndexOf2Guides ==
  [ex |-> TRUE,
   text |-> "# Index\n| [a](./guides/a.md) | [a-b](./guides/a-b.md) |"]

\* what an index file is written from: plain text, a link to a guide of the
\* section, a link to a guide the section does not have, a link to a
\* decision, a link to an agent, an external link, and an opening
\* "(./guides/" that is no link
IndexPieces ==
  {"See", "[a](./guides/a.md)", "[zz](./guides/zz.md)",
   "[d](./decisions/D.md)", "[g](./agents/a.md)", "[e](https://e.com/x.md)",
   "(./guides/"}
\* largest number of pieces of an index text
MaxPieces == 2
IndexTexts ==
  {Join(l, " ") : l \in UNION {[1..n -> IndexPieces] : n \in 1..MaxPieces}}

\* a section directory: root tells whether the directory itself exists
Tree(config, index, guides, agents, decisions) ==
  [root |-> TRUE, config |-> config, index |-> index, guides |-> guides,
   agents |-> agents, decisions |-> decisions]

\* a section with every role present
DefaultTree ==
  Tree(NoConfig, IndexOf2Guides,
       [ex |-> TRUE, list |-> <<"a-b.md">>],
       [ex |-> TRUE, list |-> <<"a.md">>],
       [ex |-> TRUE, list |-> <<"D.md">>])
\* a section directory that holds nothing, and one that does not exist
EmptyTree == Tree(NoConfig, NoIndex, NoDir, NoDir, NoDir)
MissingTree == [EmptyTree EXCEPT !.root = FALSE]

\* sections with all combinations of their role sub-directories
RichTrees ==
  {Tree(c, i, g, a, d) :
     c \in {NoConfig, GlobConfig}, i \in {NoIndex, IndexOf2Guides},
     g \in DirOpts(GuidePool), a \in DirOpts(AgentPool),
     d \in DirOpts(DecisionPool)}

\* sections that differ in their index text
IndexTrees ==
  {Tree(NoConfig, [ex |-> TRUE, text |-> t], g, NoDir, NoDir) :
     t \in IndexTexts,
     g \in {NoDir, [ex |-> TRUE, list |-> <<"a.md">>]}}

\* sections that differ in what their section.json declares
ConfigTrees ==
  {Tree(c, IndexOf2Guides, [ex |-> TRUE, list |-> <<"a.md", "a-b.md">>], a, NoDir) :
     c \in {DefaultGlobOnly, OverridesOnly},
     a \in {[ex |-> TRUE, list |-> <<"a.md">>], [ex |-> TRUE, list |-> <<"guides.md">>]}}

\* sections that install, and sections whose install fails
SmallTrees ==
  {DefaultTree, EmptyTree, MissingTree,
   [DefaultTree EXCEPT !.config = BadConfig],
   [DefaultTree EXCEPT !.agents = [ex |-> TRUE, list |-> <<"locked.md">>]],
   [DefaultTree EXCEPT !.decisions = [ex |-> TRUE, list |-> <<"locked.md", "D.md">>]]}

VARIABLES
  src,               \* the section trees of the package, by section key
  targetInput,       \* answer to "Where to install?"
  sectionInput,      \* answer to "Which sections?"
  ideInput,          \* answer to "Which IDE?"
  caller,            \* who calls install: "main", or "api" for a require()
  blocked,           \* target paths no file can be written to
  dirs,              \* directories that exist on the target side
  files,             \* files on the target side: path -> content
  out,               \* lines printed on the console by this run
  pc,                \* position of main
  selectedSections,  \* main: section keys to install, in order
  selectedIde,       \* main: key of the chosen IDE
  k,                 \* main: index of the section being installed
  ipc,               \* position inside install
  sectionConfig,     \* install: parsed section.json
  todo,              \* install: files of the running loop not yet written
  err,               \* message of the exception being propagated
  run,               \* number of the current run
  ended              \* what each finished run left behind

vars ==
  <<src, targetInput, sectionInput, ideInput, caller, blocked, dirs, files, out, pc,
    selectedSections, selectedIde, k, ipc, sectionConfig, todo, err, run, ended>>

inputs == <<src, targetInput, sectionInput, ideInput, caller, blocked>>
mainLocals == <<selectedSections, selectedIde, k>>
installLocals == <<ipc, sectionConfig, todo>>
history == <<run, ended>>

(***************************************************************************)
(* File system primitives.                                                 *)
(***************************************************************************)
\* a write that appends to a file that is already there
WriteFile_append(fs, path, content) ==
  [p \in (DOMAIN fs) \cup {path} |->
     IF p # path THEN fs[p]
     ELSE IF path \in DOMAIN fs THEN fs[path] \o content ELSE content]

\* fs.writeFileSync(path, content): creates the file or replaces its content
WriteFile(fs, path, content) ==
  [p \in (DOMAIN fs) \cup {path} |-> IF p = path THEN content ELSE fs[p]]

\* fs.writeFileSync(path, content) throws when path cannot be written
CanWrite(path) == path \notin blocked
WriteError(path) == "EISDIR: illegal operation on a directory, open '" \o path \o "'"

\* the log of a path before the write to it, also when the write then fails
WriteThenLog_logFirst(path, content, line) ==
  /\ out' = Append(out, line)
  /\ files' = IF CanWrite(path) THEN WriteFile(files, path, content) ELSE files

\* fs.writeFileSync(path, content); console.log(line): the log is reached
\* only when the write has not thrown
WriteThenLog(path, content, line) ==
  IF CanWrite(path)
  THEN /\ files' = WriteFile(files, path, content)
       /\ out' = Append(out, line)
  ELSE UNCHANGED <<files, out>>

\* fs.mkdirSync(dir, { recursive: true }) of <targetDir>/<a>/<b>
MkdirRecursive(ds, targetDir, a, b) ==
  ds \cup {targetDir, targetDir \o "/" \o a, targetDir \o "/" \o a \o "/" \o b}

\* a target nothing was installed in yet
EmptyTarget == dirs = {Cwd} /\ files = <<>> /\ blocked = {}

\* what earlier installs of a package that still had the guide old.md left
\* in the target
StaleFiles ==
  (Cwd \o "/.cursor/rules/tanstack-query-old.mdc"
     :> toMdcRule("Text of old", "tanstack-query guide: old", ""))
  @@ (Cwd \o "/.github/instructions/tanstack-query-old.instructions.md"
     :> "---\napplyTo: \"src/data/**\"\n---\n\nText of old")

\* the kinds of start: every answer to the prompts over a plain package;
\* one section of every shape; two sections of which either may fail; a
\* target that earlier installs have written to; install called by a
\* program that requires the installer module
InitPrompt ==
  /\ targetInput \in {"", "missing"}
  /\ sectionInput \in {"1", "2", "3", " 2 , 1", "", "x", "0,4"}
  /\ ideInput \in {"1", "2", "", "x", "0", "3", "1x"}
  /\ src = [s \in {"tanstack-query", "project-structure"} |-> DefaultTree]
  /\ caller = "main" /\ EmptyTarget

InitContent ==
  /\ targetInput = ""
  /\ sectionInput = "1"
  /\ ideInput \in {"1", "2"}
  /\ \E t \in RichTrees \cup IndexTrees \cup ConfigTrees :
       src = [s \in {"tanstack-query", "project-structure"} |->
                IF s = "tanstack-query" THEN t ELSE DefaultTree]
  /\ caller = "main" /\ EmptyTarget

InitMulti ==
  /\ targetInput = ""
  /\ sectionInput \in {"3", "2,1"}
  /\ ideInput \in {"1", "2"}
  /\ src \in [{"tanstack-query", "project-structure"} -> SmallTrees]
  /\ caller = "main" /\ EmptyTarget

\* output paths of the first section that are taken by a directory of that
\* name, so that a write to them fails
BlockedPaths ==
  {Cwd \o "/.cursor/rules/tanstack-query-decisions.mdc",
   Cwd \o "/.github/instructions/tanstack-query-a.instructions.md"}

InitStale ==
  /\ targetInput = ""
  /\ sectionInput \in {"1", "2", "3"}
  /\ ideInput \in {"1", "2"}
  /\ src = [s \in {"tanstack-query", "project-structure"} |-> DefaultTree]
  /\ caller = "main"
  /\ blocked \in {{}, BlockedPaths}
  /\ dirs = MkdirRecursive(MkdirRecursive({Cwd}, Cwd, ".cursor", "rules"),
                           Cwd, ".github", "instructions") \cup blocked
  /\ files = StaleFiles

InitApi ==
  /\ targetInput \in {"", "missing"}
  /\ sectionInput = ""
  /\ ideInput = ""
  /\ src \in [{"tanstack-query", "project-structure"} -> {DefaultTree, MissingTree}]
  /\ caller = "api" /\ EmptyTarget

Init ==
  /\ InitPrompt \/ InitContent \/ InitMulti \/ InitStale \/ InitApi
  /\ out = <<>>
  /\ pc = IF caller = "main" THEN "askTarget" ELSE "api"
  /\ selectedSections = <<>>
  /\ selectedIde = ""
  /\ k = 0
  /\ ipc = ""
  /\ sectionConfig = NoConfig
  /\ todo = <<>>
  /\ err = ""
  /\ run = 1
  /\ ended = <<>>

\* the exception leaves install: under main it leaves main too and reaches
\* main().catch, otherwise it rejects the promise install returned
Throw(message) ==
  /\ pc' = IF caller = "main" THEN "catch" ELSE "rejected"
  /\ err' = message

(***************************************************************************)
(* bin: main()                                                             *)
(***************************************************************************)
targetDir == ResolveTarget(targetInput)

\* lines 101-111
AskTarget ==
  /\ pc = "askTarget"
  /\ IF targetDir \notin dirs
     THEN /\ out' = Append(out, "Directory not found: " \o targetDir)
          /\ pc' = "exit"
     ELSE /\ pc' = "askSections"
          /\ out' = out
  /\ UNCHANGED <<inputs, dirs, files, mainLocals, installLocals, err, history>>

\* lines 113-146
AskSections ==
  /\ pc = "askSections"
  /\ LET selected == SelectSections(sectionInput)
     IN  IF Len(selected) = 0
         THEN /\ out' = Append(out, "No sections selected.")
              /\ pc' = "exit"
              /\ UNCHANGED selectedSections
         ELSE /\ selectedSections' = selected
              /\ out' = Append(out, "Selected: "
                   \o Join([i \in 1..Len(selected) |-> SECTIONS[selected[i]].name], ", "))
              /\ pc' = "askIde"
  /\ UNCHANGED <<inputs, dirs, files, selectedIde, k, installLocals, err, history>>

\* lines 148-177; ideKeys[NaN - 1] is undefined and reading its name throws
AskIde ==
  /\ pc = "askIde"
  /\ LET ideChoice == ParseInt(Trim(ideInput))
     IN  IF NumLt(ideChoice, 1) \/ NumGt(ideChoice, Len(ideKeys))
         THEN /\ out' = Append(out, "Invalid IDE selection.")
              /\ pc' = "exit"
              /\ UNCHANGED <<selectedIde, k, err>>
         ELSE IF ideChoice.nan
         THEN /\ Throw("Cannot read properties of undefined (reading 'name')")
              /\ UNCHANGED <<selectedIde, k, out>>
         ELSE /\ selectedIde' = ideKeys[ideChoice.val]
              /\ out' = Append(out, "IDE: " \o IDES[ideKeys[ideChoice.val]].name)
              /\ k' = 1
              /\ pc' = "loop"
              /\ UNCHANGED err
  /\ UNCHANGED <<inputs, dirs, files, selectedSections, installLocals, history>>

\* line 179-181: the next section is handed to the installer
CallInstall ==
  /\ pc = "loop"
  /\ k <= Len(selectedSections)
  /\ pc' = "install"
  /\ ipc' = "begin"
  /\ sectionConfig' = NoConfig
  /\ todo' = <<>>
  /\ UNCHANGED <<inputs, dirs, files, out, mainLocals, err, history>>

\* lines 184-187: all sections are installed
Finish ==
  /\ pc = "loop"
  /\ k > Len(selectedSections)
  /\ out' = out \o <<"Done!", "Rules installed in " \o targetDir>>
  /\ pc' = "done"
  /\ UNCHANGED <<inputs, dirs, files, mainLocals, installLocals, err, history>>

\* a handler that reports the error and then the success message as well
MainCatch_fallsThrough ==
  /\ pc = "catch"
  /\ out' = out \o <<"Error: " \o err, "Done!">>
  /\ pc' = "exit"
  /\ UNCHANGED <<inputs, dirs, files, mainLocals, installLocals, err, history>>

\* lines 190-194
MainCatch ==
  /\ pc = "catch"
  /\ out' = Append(out, "Error: " \o err)
  /\ pc' = "exit"
  /\ UNCHANGED <<inputs, dirs, files, mainLocals, installLocals, err, history>>

\* the installer is started again with the same answers on the same target
Rerun ==
  /\ pc \in {"done", "exit"}
  /\ run < MaxRuns
  /\ ended' = Append(ended, [files |-> files, out |-> out, pc |-> pc, src |-> src])
  /\ run' = run + 1
  /\ pc' = "askTarget"
  /\ out' = <<>>
  /\ selectedSections' = <<>>
  /\ selectedIde' = ""
  /\ k' = 0
  /\ ipc' = ""
  /\ sectionConfig' = NoConfig
  /\ todo' = <<>>
  /\ err' = ""
  /\ UNCHANGED <<inputs, dirs, files>>

\* what an edit makes of section.json: a section without one is given one,
\* a valid one is broken, any other is removed
EditedConfig(c) ==
  IF c = NoConfig THEN GlobConfig ELSE IF c = GlobConfig THEN BadConfig ELSE NoConfig

\* the installer is started again with the same answers on the same target
\* after the section.json of the first section was written anew or removed
RerunEdited ==
  /\ pc \in {"done", "exit"}
  /\ run < MaxRuns
  /\ src' = [src EXCEPT !["tanstack-query"].config = EditedConfig(@)]
  /\ ended' = Append(ended, [files |-> files, out |-> out, pc |-> pc, src |-> src])
  /\ run' = run + 1
  /\ pc' = "askTarget"
  /\ out' = <<>>
  /\ selectedSections' = <<>>
  /\ selectedIde' = ""
  /\ k' = 0
  /\ ipc' = ""
  /\ sectionConfig' = NoConfig
  /\ todo' = <<>>
  /\ err' = ""
  /\ UNCHANGED <<targetInput, sectionInput, ideInput, caller, blocked, dirs, files>>

(***************************************************************************)
(* install({ targetDir, sectionDir, sectionName }) of both installers.     *)
(* The lines printed on the console are kept without their colour codes    *)
(* and without the leading check mark; the dash of the descriptions is     *)
(* written "-".                                                            *)
(***************************************************************************)
sectionName == selectedSections[k]
sectionDir == SectionDir(sectionName)
tree == src[sectionName]

CanRead(name) == name \notin UnreadableNames
ReadError(role, name) ==
  "EACCES: permission denied, open '" \o sectionDir \o "/" \o role \o "/" \o name \o "'"

\* files.map((f) => fs.readFileSync(path.join(dir, f), 'utf-8'))
ReadAll(role, names) ==
  [i \in 1..Len(names) |-> SourceText(sectionDir, role, names[i])]

\* the first entry of names that cannot be read, "" if all can
RECURSIVE FirstUnreadable(_)
FirstUnreadable(names) ==
  IF Len(names) = 0 THEN ""
  ELSE IF ~CanRead(names[1]) THEN names[1]
  ELSE FirstUnreadable(Tail(names))

\* module.exports = { install }: a program requires the installer and calls
\* install({ targetDir, sectionDir, sectionName }) itself, without the
\* prompts of main and their checks
ApiInstall ==
  /\ pc = "api"
  /\ \E ide \in {"cursor", "copilot"}, section \in {"tanstack-query", "project-structure"} :
       /\ selectedIde' = ide
       /\ selectedSections' = <<section>>
  /\ k' = 1
  /\ pc' = "install"
  /\ ipc' = "begin"
  /\ UNCHANGED <<inputs, dirs, files, out, sectionConfig, todo, err, history>>

\* ---- installers/cursor.js ----
\* the rules directory with its last path segment left out
rulesDir_flat == targetDir \o "/.cursor"

rulesDir == targetDir \o "/.cursor/rules"

\* the same with section.json left unparsed when it is malformed: install
\* goes on as if the section had none
CursorBegin_noParse ==
  /\ pc = "install" /\ selectedIde = "cursor" /\ ipc = "begin"
  /\ dirs' = MkdirRecursive(dirs, targetDir, ".cursor", "rules")
  /\ sectionConfig' = IF tree.config.valid THEN tree.config ELSE NoConfig
  /\ ipc' = "index"
  /\ UNCHANGED <<inputs, files, out, pc, err, mainLocals, todo, history>>

\* lines 43-52: the rules directory, then section.json
CursorBegin ==
  /\ pc = "install" /\ selectedIde = "cursor" /\ ipc = "begin"
  /\ dirs' = MkdirRecursive(dirs, targetDir, ".cursor", "rules")
  /\ IF tree.config.ex /\ ~tree.config.valid
     THEN /\ Throw("Unexpected token in JSON")
          /\ UNCHANGED <<ipc, sectionConfig>>
     ELSE /\ sectionConfig' = tree.config
          /\ ipc' = "index"
          /\ UNCHANGED <<pc, err>>
  /\ UNCHANGED <<inputs, files, out, mainLocals, todo, history>>

\* lines 54-70
CursorIndex ==
  /\ pc = "install" /\ selectedIde = "cursor" /\ ipc = "index"
  /\ IF tree.index.ex
     THEN LET rewrittenIndex == rewriteIndexPaths(tree.index.text, sectionName)
              ruleContent ==
                toMdcRule(rewrittenIndex,
                          sectionName \o " - index and routing table. Read this FIRST to find which guide to load.",
                          sectionConfig.globs)
              ruleFile == rulesDir \o "/" \o sectionName \o "-index.mdc"
          IN  /\ WriteThenLog(ruleFile, ruleContent,
                    ".cursor/rules/" \o sectionName \o "-index.mdc"
                      \o " (auto-attached on "
                      \o (IF sectionConfig.globs # "" THEN sectionConfig.globs ELSE "manual")
                      \o ")")
              /\ IF CanWrite(ruleFile)
                 THEN ipc' = "guides" /\ UNCHANGED <<pc, err>>
                 ELSE Throw(WriteError(ruleFile)) /\ UNCHANGED ipc
     ELSE /\ ipc' = "guides"
          /\ UNCHANGED <<files, out, pc, err>>
  /\ UNCHANGED <<inputs, dirs, mainLocals, sectionConfig, todo, history>>

\* lines 73-78: the sorted list of guide files
CursorGuidesOpen ==
  /\ pc = "install" /\ selectedIde = "cursor" /\ ipc = "guides"
  /\ LET guideFiles ==
           IF tree.guides.ex THEN SortStrings(FilterMd(tree.guides.list)) ELSE <<>>
     IN  /\ todo' = guideFiles
         /\ ipc' = IF Len(guideFiles) = 0 THEN "agents" ELSE "guide"
  /\ UNCHANGED <<inputs, dirs, files, out, pc, mainLocals, sectionConfig, err, history>>

\* lines 80-106: one turn of the loop over the guide files
CursorGuide ==
  /\ pc = "install" /\ selectedIde = "cursor" /\ ipc = "guide"
  /\ LET guideFile == Head(todo)
         guideContent == SourceText(sectionDir, "guides", guideFile)
         titleMatch == ExtractTitle(guideContent)
         guideKey == ReplaceFirst(guideFile, ".md", "")
         title == IF titleMatch # "" THEN titleMatch ELSE guideKey
         guideGlob ==
           IF guideKey \in DOMAIN sectionConfig.guideGlobs
           THEN sectionConfig.guideGlobs[guideKey] ELSE ""
         ruleName == sectionName \o "-" \o guideKey \o ".mdc"
         ruleContent ==
           toMdcRule(guideContent, sectionName \o " guide: " \o title, guideGlob)
     IN  IF ~CanRead(guideFile)
         THEN /\ Throw(ReadError("guides", guideFile))
              /\ UNCHANGED <<files, out, ipc, todo>>
         ELSE /\ WriteThenLog(rulesDir \o "/" \o ruleName, ruleContent,
                    ".cursor/rules/" \o ruleName
                      \o (IF guideGlob # ""
                          THEN " (auto-attached on " \o guideGlob \o ")" ELSE ""))
              /\ IF CanWrite(rulesDir \o "/" \o ruleName)
                 THEN /\ todo' = Tail(todo)
                      /\ ipc' = IF Len(todo) = 1 THEN "agents" ELSE "guide"
                      /\ UNCHANGED <<pc, err>>
                 ELSE /\ Throw(WriteError(rulesDir \o "/" \o ruleName))
                      /\ UNCHANGED <<ipc, todo>>
  /\ UNCHANGED <<inputs, dirs, mainLocals, sectionConfig, history>>

\* lines 110-114: the list of agent files, in directory order
CursorAgentsOpen ==
  /\ pc = "install" /\ selectedIde = "cursor" /\ ipc = "agents"
  /\ LET agentFiles == IF tree.agents.ex THEN FilterMd(tree.agents.list) ELSE <<>>
     IN  /\ todo' = agentFiles
         /\ ipc' = IF Len(agentFiles) = 0 THEN "decisions" ELSE "agent"
  /\ UNCHANGED <<inputs, dirs, files, out, pc, mainLocals, sectionConfig, err, history>>

\* lines 116-137: one turn of the loop over the agent files
CursorAgent ==
  /\ pc = "install" /\ selectedIde = "cursor" /\ ipc = "agent"
  /\ LET agentFile == Head(todo)
         agentContent == SourceText(sectionDir, "agents", agentFile)
         titleMatch == ExtractTitle(agentContent)
         description ==
           IF titleMatch # "" THEN titleMatch ELSE ReplaceFirst(agentFile, ".md", "")
         ruleContent == toMdcRule(agentContent, "Agent: " \o description, "")
         ruleName == sectionName \o "-" \o ReplaceFirst(agentFile, ".md", "") \o ".mdc"
     IN  IF ~CanRead(agentFile)
         THEN /\ Throw(ReadError("agents", agentFile))
              /\ UNCHANGED <<files, out, ipc, todo>>
         ELSE /\ WriteThenLog(rulesDir \o "/" \o ruleName, ruleContent,
                                ".cursor/rules/" \o ruleName)
              /\ IF CanWrite(rulesDir \o "/" \o ruleName)
                 THEN /\ todo' = Tail(todo)
                      /\ ipc' = IF Len(todo) = 1 THEN "decisions" ELSE "agent"
                      /\ UNCHANGED <<pc, err>>
                 ELSE /\ Throw(WriteError(rulesDir \o "/" \o ruleName))
                      /\ UNCHANGED <<ipc, todo>>
  /\ UNCHANGED <<inputs, dirs, mainLocals, sectionConfig, history>>

\* lines 140-163: all decisions in one rule file
CursorDecisions ==
  /\ pc = "install" /\ selectedIde = "cursor" /\ ipc = "decisions"
  /\ IF tree.decisions.ex
     THEN LET decisionFiles == SortStrings(FilterMd(tree.decisions.list))
              decisionsContent == Join(ReadAll("decisions", decisionFiles), "\n\n---\n\n")
              ruleContent ==
                toMdcRule(decisionsContent,
                          sectionName \o " - architecture decision records (ADRs)", "")
              ruleFile == rulesDir \o "/" \o sectionName \o "-decisions.mdc"
          IN  IF FirstUnreadable(decisionFiles) # ""
              THEN /\ Throw(ReadError("decisions", FirstUnreadable(decisionFiles)))
                   /\ UNCHANGED <<files, out, ipc>>
              ELSE /\ WriteThenLog(ruleFile, ruleContent,
                                     ".cursor/rules/" \o sectionName \o "-decisions.mdc")
                   /\ IF CanWrite(ruleFile)
                      THEN ipc' = "ret" /\ UNCHANGED <<pc, err>>
                      ELSE Throw(WriteError(ruleFile)) /\ UNCHANGED ipc
     ELSE /\ ipc' = "ret"
          /\ UNCHANGED <<files, out, pc, err>>
  /\ UNCHANGED <<inputs, dirs, mainLocals, sectionConfig, todo, history>>

\* ---- installers/copilot.js ----
instructionsDir == targetDir \o "/.github/instructions"

\* a frontmatter whose path-matcher is the default glob of section.json when
\* there is one
ApplyTo_fromConfig(content) ==
  Join(<<"---",
         "applyTo: \""
           \o (IF tree.config.ex /\ tree.config.globs # ""
               THEN tree.config.globs ELSE "src/data/**")
           \o "\"",
         "---", "", content>>, "\n")

\* the frontmatter every copilot file starts with, and the blank line
ApplyTo(content) == Join(<<"---", "applyTo: \"src/data/**\"", "---", "", content>>, "\n")

\* lines 17-57: the instructions directory, then index and guides in one file
CopilotGuides ==
  /\ pc = "install" /\ selectedIde = "copilot" /\ ipc = "begin"
  /\ dirs' = MkdirRecursive(dirs, targetDir, ".github", "instructions")
  /\ IF tree.guides.ex
     THEN LET indexContent == IF tree.index.ex THEN tree.index.text ELSE ""
              guideFiles == SortStrings(FilterMd(tree.guides.list))
              guidesContent == Join(ReadAll("guides", guideFiles), "\n\n---\n\n")
              fileContent ==
                Join(<<"---", "applyTo: \"src/data/**\"", "---", "", indexContent,
                       "", "---", "", guidesContent>>, "\n")
              fileName == sectionName \o "-guides.instructions.md"
          IN  IF FirstUnreadable(guideFiles) # ""
              THEN /\ Throw(ReadError("guides", FirstUnreadable(guideFiles)))
                   /\ UNCHANGED <<files, out, ipc>>
              ELSE /\ WriteThenLog(instructionsDir \o "/" \o fileName, fileContent,
                                     ".github/instructions/" \o fileName)
                   /\ IF CanWrite(instructionsDir \o "/" \o fileName)
                      THEN ipc' = "agents" /\ UNCHANGED <<pc, err>>
                      ELSE /\ Throw(WriteError(instructionsDir \o "/" \o fileName))
                           /\ UNCHANGED ipc
     ELSE /\ ipc' = "agents"
          /\ UNCHANGED <<files, out, pc, err>>
  /\ UNCHANGED <<inputs, mainLocals, sectionConfig, todo, history>>

\* lines 60-64: the list of agent files, in directory order
CopilotAgentsOpen ==
  /\ pc = "install" /\ selectedIde = "copilot" /\ ipc = "agents"
  /\ LET agentFiles == IF tree.agents.ex THEN FilterMd(tree.agents.list) ELSE <<>>
     IN  /\ todo' = agentFiles
         /\ ipc' = IF Len(agentFiles) = 0 THEN "decisions" ELSE "agent"
  /\ UNCHANGED <<inputs, dirs, files, out, pc, mainLocals, sectionConfig, err, history>>

\* lines 66-84: one turn of the loop over the agent files
CopilotAgent ==
  /\ pc = "install" /\ selectedIde = "copilot" /\ ipc = "agent"
  /\ LET agentFile == Head(todo)
         agentContent == SourceText(sectionDir, "agents", agentFile)
         fileName ==
           sectionName \o "-" \o ReplaceFirst(agentFile, ".md", "") \o ".instructions.md"
     IN  IF ~CanRead(agentFile)
         THEN /\ Throw(ReadError("agents", agentFile))
              /\ UNCHANGED <<files, out, ipc, todo>>
         ELSE /\ WriteThenLog(instructionsDir \o "/" \o fileName, ApplyTo(agentContent),
                                ".github/instructions/" \o fileName)
              /\ IF CanWrite(instructionsDir \o "/" \o fileName)
                 THEN /\ todo' = Tail(todo)
                      /\ ipc' = IF Len(todo) = 1 THEN "decisions" ELSE "agent"
                      /\ UNCHANGED <<pc, err>>
                 ELSE /\ Throw(WriteError(instructionsDir \o "/" \o fileName))
                      /\ UNCHANGED <<ipc, todo>>
  /\ UNCHANGED <<inputs, dirs, mainLocals, sectionConfig, history>>

\* lines 87-115: all decisions in one instruction file
CopilotDecisions ==
  /\ pc = "install" /\ selectedIde = "copilot" /\ ipc = "decisions"
  /\ IF tree.decisions.ex
     THEN LET decisionFiles == SortStrings(FilterMd(tree.decisions.list))
              decisionsContent == Join(ReadAll("decisions", decisionFiles), "\n\n---\n\n")
              fileName == sectionName \o "-decisions.instructions.md"
          IN  IF FirstUnreadable(decisionFiles) # ""
              THEN /\ Throw(ReadError("decisions", FirstUnreadable(decisionFiles)))
                   /\ UNCHANGED <<files, out, ipc>>
              ELSE /\ WriteThenLog(instructionsDir \o "/" \o fileName,
                                     ApplyTo(decisionsContent),
                                     ".github/instructions/" \o fileName)
                   /\ IF CanWrite(instructionsDir \o "/" \o fileName)
                      THEN ipc' = "ret" /\ UNCHANGED <<pc, err>>
                      ELSE /\ Throw(WriteError(instructionsDir \o "/" \o fileName))
                           /\ UNCHANGED ipc
     ELSE /\ ipc' = "ret"
          /\ UNCHANGED <<files, out, pc, err>>
  /\ UNCHANGED <<inputs, dirs, mainLocals, sectionConfig, todo, history>>

\* install returns: to the loop of main (line 181-182), or to the program
\* that called it
Return ==
  /\ pc = "install" /\ ipc = "ret"
  /\ pc' = IF caller = "main" THEN "loop" ELSE "returned"
  /\ k' = IF caller = "main" THEN k + 1 ELSE k
  /\ ipc' = ""
  /\ UNCHANGED <<inputs, dirs, files, out, selectedSections, selectedIde,
                 sectionConfig, todo, err, history>>

Next ==
  \/ AskTarget
  \/ AskSections
  \/ AskIde
  \/ CallInstall
  \/ Finish
  \/ MainCatch
  \/ Rerun
  \/ RerunEdited
  \/ ApiInstall
  \/ CursorBegin
  \/ CursorIndex
  \/ CursorGuidesOpen
  \/ CursorGuide
  \/ CursorAgentsOpen
  \/ CursorAgent
  \/ CursorDecisions
  \/ CopilotGuides
  \/ CopilotAgentsOpen
  \/ CopilotAgent
  \/ CopilotDecisions
  \/ Return

Spec == Init /\ [][Next]_vars

(***************************************************************************)
(* Vocabulary of the properties.                                           *)
(***************************************************************************)
\* install has just returned for section selectedSections[k]
CompletedInstall == pc = "install" /\ ipc = "ret"
\* ... and it was the first install into the still empty target
FirstInstall ==
  /\ CompletedInstall /\ run = 1 /\ k = 1
  /\ DOMAIN StaleFiles \cap DOMAIN files = {}

\* the .md files of a role sub-directory of the section being installed
MdNames(role) ==
  {tree[role].list[i] : i \in {j \in 1..Len(tree[role].list) :
                                 EndsWith(tree[role].list[j], ".md")}}
\* the identifier of an artifact: its file name without the extension
Ident(name) == SubSeq(name, 1, Len(name) - Len(".md"))

\* the directory the chosen installer writes to, absolute and relative
OutDir == IF selectedIde = "cursor" THEN rulesDir ELSE instructionsDir
RelOutDir == IF selectedIde = "cursor" THEN ".cursor/rules" ELSE ".github/instructions"
\* the output files of the section being installed
SectionOutputs ==
  {p \in DOMAIN files : StartsWithAt(p, 1, OutDir \o "/" \o sectionName \o "-")}
\* the output file that is to hold the index, the guides, the decisions
IndexPath ==
  OutDir \o "/" \o sectionName
    \o (IF selectedIde = "cursor" THEN "-index.mdc" ELSE "-guides.instructions.md")
DecisionsPath(section) ==
  OutDir \o "/" \o section
    \o (IF selectedIde = "cursor" THEN "-decisions.mdc" ELSE "-decisions.instructions.md")
GuidesPath == instructionsDir \o "/" \o sectionName \o "-guides.instructions.md"
\* the output files that hold the text of a source file of a role
Holders(role, name) ==
  {p \in SectionOutputs : Includes(files[p], SourceText(sectionDir, role, name))}

\* C1: for a section with an index, a completed install leaves exactly one
\* output file of the section that holds the index content, whichever role
\* sub-directories the section has
C1_IndexInOneFile ==
  (CompletedInstall /\ tree.index.ex) =>
    LET indexContent ==
          IF selectedIde = "cursor"
          THEN rewriteIndexPaths(tree.index.text, sectionName)
          ELSE tree.index.text
    IN  Cardinality({p \in SectionOutputs : Includes(files[p], indexContent)}) = 1

\* C2: under cursor, after one completed install into an empty target, the
\* number of output files that hold a guide equals the number of .md files
\* in guides/
C2_GuideFileCount ==
  (FirstInstall /\ selectedIde = "cursor") =>
    Cardinality(UNION {Holders("guides", g) : g \in MdNames("guides")})
      = Cardinality(MdNames("guides"))

\* C3: under copilot, a completed install leaves all guide bodies in the one
\* file <section>-guides.instructions.md and in no other output file
C3_GuidesMerged ==
  (FirstInstall /\ selectedIde = "copilot" /\ MdNames("guides") # {}) =>
    \A g \in MdNames("guides") : Holders("guides", g) = {GuidesPath}

\* the .md names of a role in ascending order of Key(name)
OrderedBy(names, Key(_)) ==
  CHOOSE l \in [1..Cardinality(names) -> names] :
    \A i, j \in 1..Cardinality(names) : i < j => StrLess(Key(l[i]), Key(l[j]))
FileName(name) == name
\* the file <section>-decisions holds exactly the bodies of names, in the
\* order of Key, with a horizontal rule between two bodies, and no other
\* output file of the section holds a decision
DecisionsAggregated(Key(_)) ==
  LET names == MdNames("decisions")
      order == OrderedBy(names, Key)
      bodies == [i \in 1..Len(order) |-> SourceText(sectionDir, "decisions", order[i])]
  IN  /\ \A d \in names : Holders("decisions", d) = {DecisionsPath(sectionName)}
      /\ EndsWith(files[DecisionsPath(sectionName)],
                  "---\n\n" \o Join(bodies, "\n\n---\n\n"))

\* C4 as stated: for N >= 1 decisions a completed install leaves one
\* decisions file with all N bodies in lexicographic order of identifier,
\* a horizontal rule between consecutive bodies
C4_DecisionsByIdentifier ==
  (CompletedInstall /\ MdNames("decisions") # {}) => DecisionsAggregated(Ident)

\* C4 amended: ... with all N bodies in lexicographic order of file name
C4_DecisionsByFileName ==
  (CompletedInstall /\ MdNames("decisions") # {}) => DecisionsAggregated(FileName)

\* two decisions that the directory lists in descending order were installed
C4_Witness ==
  /\ CompletedInstall
  /\ MdNames("decisions") = {"D.md", "D-x.md"}
  /\ tree.decisions.list[1] = "D.md"
  /\ DecisionsPath(sectionName) \in DOMAIN files

\* C5: a group with zero artifacts gets no output file: no decisions file
\* when there is no decision, no merged guides file with an empty body
C5_NoEmptyGroupFile ==
  FirstInstall =>
    /\ MdNames("decisions") = {} => DecisionsPath(sectionName) \notin DOMAIN files
    /\ (selectedIde = "copilot" /\ MdNames("guides") = {} /\ GuidesPath \in DOMAIN files)
         => ~EndsWith(files[GuidesPath], "\n---\n\n")

\* C6: when the run is over, every selected section that installs without
\* error has been installed, whether or not a section selected before it
\* failed
C6_FailureDoesNotAbort ==
  (pc \in {"done", "exit"} /\ k >= 1) =>
    \A i \in 1..Len(selectedSections) :
      src[selectedSections[i]] = DefaultTree
        => DecisionsPath(selectedSections[i]) \in DOMAIN files

\* C7: a second run with the same target, sections and emitter over the
\* same sources ends with the same output paths and the same contents as
\* the run before it
C7_Idempotent ==
  (pc \in {"done", "exit"} /\ run >= 2 /\ src = ended[run - 1].src) =>
    files = ended[run - 1].files

\* a second run has installed files and finished
C7_Witness ==
  /\ pc = "done" /\ run = 2 /\ src = ended[1].src
  /\ Cardinality(DOMAIN files) >= 3

\* the path of an output file relative to the target directory
RelPath(p) == SubSeq(p, Len(targetDir) + 2, Len(p))
GuideLink(name) == "(./guides/" \o name \o ")"

\* C8: after install, every link of the index to a guide of the section
\* points to the output file that holds that guide and no longer to
\* ./guides/<id>.md
C8_LinksFollowGuides ==
  (CompletedInstall /\ tree.index.ex /\ IndexPath \in DOMAIN files) =>
    \A g \in MdNames("guides") :
      Includes(tree.index.text, GuideLink(g)) =>
        /\ ~Includes(files[IndexPath], GuideLink(g))
        /\ \E p \in Holders("guides", g) :
             Includes(files[IndexPath], "(" \o RelPath(p) \o ")")

RECURSIVE ReplaceAll(_, _, _)
\* every occurrence of the literal lit in s replaced by rep
ReplaceAll(s, lit, rep) ==
  LET i == IndexOf(s, lit, 1)
  IN  IF i = 0 THEN s
      ELSE SubSeq(s, 1, i - 1) \o rep
           \o ReplaceAll(SubSeq(s, i + Len(lit), Len(s)), lit, rep)

RECURSIVE LinksMapped(_, _, _)
\* text with the link to each guide of names replaced by the path where
\* cursor writes that guide, and nothing else changed
LinksMapped(text, section, names) ==
  IF names = {} THEN text
  ELSE LET g == CHOOSE n \in names : TRUE
       IN  LinksMapped(
             ReplaceAll(text, GuideLink(g),
                        "(.cursor/rules/" \o section \o "-" \o Ident(g) \o ".mdc)"),
             section, names \ {g})

\* cursor has just written the index of the section
IndexWritten ==
  pc = "install" /\ selectedIde = "cursor" /\ ipc = "guides" /\ tree.index.ex

\* C9: the rewriter replaces the link to each guide g of the section by the
\* path where the emitter writes g and leaves every other character of the
\* index unchanged
C9_OnlyGuideLinksChange ==
  IndexWritten =>
    EndsWith(files[IndexPath],
             "---\n\n" \o LinksMapped(tree.index.text, sectionName, MdNames("guides")))

\* C10: a link of the guide-linking form to an identifier that is not a
\* guide of the section is left as it is
C10_UnknownLinkUntouched ==
  IndexWritten =>
    \A g \in {"a.md", "a-b.md", "zz.md"} \ MdNames("guides") :
      Includes(tree.index.text, GuideLink(g)) => Includes(files[IndexPath], GuideLink(g))

\* the links of the index texts that lead to a decision, to an agent and
\* to an external resource
OtherLinks == {"(./decisions/D.md)", "(./agents/a.md)", "(https://e.com/x.md)"}

\* C11: the rewriter changes only links to guide files: a link to a
\* decision, a link to an agent and an external URL that the index holds
\* are in the rewritten index exactly as they were
C11_OtherLinksUnchanged ==
  IndexWritten =>
    \A l \in OtherLinks :
      Includes(tree.index.text, l) => Includes(files[IndexPath], l)

\* s holds a link of the guide-linking form: "(./guides/", then one or
\* more characters other than ")", then ".md)"
HasGuideForm(s) ==
  \E i, j \in 1..Len(s) :
    /\ StartsWithAt(s, i, "(./guides/")
    /\ j > i + Len("(./guides/")
    /\ StartsWithAt(s, j, ".md)")
    /\ \A q \in (i + Len("(./guides/"))..(j + 2) : SubSeq(s, q, q) # ")"

\* C12: an index that holds no link of the guide-linking form is written
\* with its content unchanged, whatever the section
C12_NoGuideFormUnchanged ==
  (IndexWritten /\ ~HasGuideForm(tree.index.text)) =>
    EndsWith(files[IndexPath], "---\n\n" \o tree.index.text)

\* an index of two links, none to a guide, has been written
C12_Witness ==
  /\ IndexWritten
  /\ tree.index.text = "[d](./decisions/D.md) [e](https://e.com/x.md)"
  /\ IndexPath \in DOMAIN files

\* ---- the frontmatter of the rules written by cursor ----
\* the lines of a rule from its first "---" up to its second
Frontmatter(c) == SubSeq(c, 1, IndexOf(c, "\n---\n", 1))
HasAttribute(c, line) == Includes(Frontmatter(c), "\n" \o line \o "\n")
CarriesGlob(c) == Includes(Frontmatter(c), "\nglobs: ")
CarriesDescription(c) == Includes(Frontmatter(c), "\ndescription: ")

\* what section.json gives: the default glob, the override of a guide
ConfigGlob == IF tree.config.ex THEN tree.config.globs ELSE ""
OverrideOf(name) ==
  IF tree.config.ex /\ Ident(name) \in DOMAIN tree.config.guideGlobs
  THEN tree.config.guideGlobs[Ident(name)] ELSE ""
\* the first heading of a source file, its identifier when it has none
TitleOf(name) == IF name \in HeadlessNames THEN Ident(name) ELSE "About " \o name

\* install of cursor has just returned
CursorDone == CompletedInstall /\ selectedIde = "cursor"

C14_IndexAlwaysAuto ==
  IndexWritten =>
    IF ConfigGlob # ""
    THEN HasAttribute(files[IndexPath], "globs: " \o ConfigGlob)
    ELSE /\ HasAttribute(files[IndexPath], "alwaysApply: true")
         /\ ~CarriesGlob(files[IndexPath])

\* a guide with an override carries exactly that glob; any other guide
\* carries no glob and the description "<SectionTitle> guide: <title>"
GuidePolicy(SectionTitle) ==
  \A g \in MdNames("guides") : \A p \in Holders("guides", g) :
    IF OverrideOf(g) # ""
    THEN HasAttribute(files[p], "globs: " \o OverrideOf(g))
    ELSE /\ ~CarriesGlob(files[p])
         /\ HasAttribute(files[p],
               "description: " \o SectionTitle \o " guide: " \o TitleOf(g))

\* C15 as stated: ... where the section title of the description is the
\* human-readable title of the section
C15_GuideByTitle == CursorDone => GuidePolicy(SECTIONS[sectionName].name)

\* C15 amended: ... where the description starts with the identifier of the
\* section
C15_GuideByIdentifier == CursorDone => GuidePolicy(sectionName)

\* a guide with a heading and an override and a guide without either were
\* installed
C15_Witness ==
  /\ CursorDone
  /\ OverrideOf("a.md") # "" /\ OverrideOf("a-b.md") = ""
  /\ Holders("guides", "a.md") # {} /\ Holders("guides", "a-b.md") # {}

\* C16: the rule of an agent never carries a glob, whatever section.json
\* holds, and its description is "Agent: <title>", the title being the
\* first heading of the agent or, without one, its identifier
C16_AgentOnDemand ==
  CursorDone =>
    \A a \in MdNames("agents") : \A p \in Holders("agents", a) :
      /\ ~CarriesGlob(files[p])
      /\ HasAttribute(files[p], "description: Agent: " \o TitleOf(a))

\* an agent whose name has an override in section.json and an agent
\* without a heading were installed under a default glob
C16_Witness ==
  /\ CursorDone
  /\ ConfigGlob # "" /\ OverrideOf("a.md") # ""
  /\ Holders("agents", "a.md") # {} /\ Holders("agents", "guides.md") # {}

\* C17: install called with a target directory that does not exist fails
\* and neither creates the directory nor writes a file
C17_MissingTargetRejected ==
  (caller = "api" /\ targetInput = "missing") =>
    /\ targetDir \notin dirs
    /\ files = <<>>
    /\ pc # "returned"

\* C18: the install of a section whose root directory does not exist
\* fails: it never returns as if it had succeeded
C18_MissingRootRejected == CompletedInstall => tree.root

\* C19: when a section lacks one of guides/, agents/ and decisions/, a
\* completed install has emitted every artifact the section has: its index
\* and every .md file of the sub-directories that exist
C19_MissingRoleIsEmpty ==
  (CompletedInstall /\ \E role \in {"guides", "agents", "decisions"} : ~tree[role].ex) =>
    /\ tree.index.ex =>
          \E p \in SectionOutputs :
            Includes(files[p],
                     IF selectedIde = "cursor"
                     THEN rewriteIndexPaths(tree.index.text, sectionName)
                     ELSE tree.index.text)
    /\ \A role \in {"guides", "agents", "decisions"} :
          \A n \in MdNames(role) : Holders(role, n) # {}

\* C20: when a run has completed, every output file of a chosen section in
\* the output directory was written by this run: none is there only because
\* an earlier run left it
C20_FullRegeneration ==
  pc = "done" =>
    \A i \in 1..Len(selectedSections) : \A p \in DOMAIN files :
      StartsWithAt(p, 1, OutDir \o "/" \o selectedSections[i] \o "-") =>
        \E j \in 1..Len(out) : StartsWithAt(out[j], 1, RelPath(p))

\* the sources of this run and of the run before differ, and in nothing but
\* section.json
OnlyConfigEdited ==
  /\ run >= 2
  /\ src # ended[run - 1].src
  /\ \A sec \in DOMAIN src :
       [src[sec] EXCEPT !.config = NoConfig]
         = [ended[run - 1].src[sec] EXCEPT !.config = NoConfig]

\* C21: every file in the instructions directory starts with the one fixed
\* applyTo frontmatter, and a copilot run over sources that differ from
\* those of the run before only in section.json ends with the same files,
\* paths and contents, and the same report
C21_CopilotIgnoresConfig ==
  /\ (pc = "install" /\ selectedIde = "copilot") =>
       \A p \in DOMAIN files :
         StartsWithAt(p, 1, instructionsDir \o "/") =>
           StartsWithAt(files[p], 1, "---\napplyTo: \"src/data/**\"\n---\n\n")
  /\ (pc \in {"done", "exit"} /\ selectedIde = "copilot" /\ OnlyConfigEdited) =>
       files = ended[run - 1].files /\ out = ended[run - 1].out

\* a second copilot run has installed a section that was given a
\* section.json with a default glob and an override after the first run
C21_Witness ==
  /\ pc = "done" /\ selectedIde = "copilot" /\ OnlyConfigEdited
  /\ selectedSections[1] = "tanstack-query"
  /\ src["tanstack-query"].config = GlobConfig
  /\ Cardinality(DOMAIN files) >= 3

\* line is the report of the output file p; line reports some path
IsReport(line, p) == StartsWithAt(line, 1, RelPath(p))
IsPathLine(line) == StartsWithAt(line, 1, ".")
\* the files whose content or existence differs between two states
Changed(before, after) ==
  {p \in DOMAIN after : p \notin DOMAIN before \/ after[p] # before[p]}

\* every file the first run has written so far is reported and every
\* reported path is a file that is there
ReportsMatchFiles ==
  run = 1 =>
    /\ \A p \in DOMAIN files \ DOMAIN StaleFiles :
         \E j \in 1..Len(out) : IsReport(out[j], p)
    /\ \A j \in 1..Len(out) :
         IsPathLine(out[j]) => \E p \in DOMAIN files : IsReport(out[j], p)

\* a step of install that writes a file adds exactly one line, the report
\* of that file, and a step of install that adds a line adds one line, the
\* report of a file that is there after the step
ReportFollowsWrite ==
  pc = "install" =>
    /\ files' # files =>
         /\ out' = Append(out, out'[Len(out')])
         /\ \A p \in Changed(files, files') : IsReport(out'[Len(out')], p)
    /\ out' # out =>
         /\ out' = Append(out, out'[Len(out')])
         /\ \E p \in DOMAIN files' : IsReport(out'[Len(out')], p)

OwnPath(name) ==
  OutDir \o "/" \o sectionName \o "-" \o Ident(name)
    \o (IF selectedIde = "cursor" THEN ".mdc" ELSE ".instructions.md")
\* the position in the report of the last write to a path, 0 if none
LastReport(p) ==
  LET js == {j \in 1..Len(out) : IsReport(out[j], p)}
  IN  IF js = {} THEN 0 ELSE CHOOSE j \in js : \A i \in js : i <= j

\* C23: the artifacts of a role are emitted in lexicographic order of file
\* name, whatever the order of the directory listing: of two agents, and
\* under cursor of two guides, the one with the smaller file name is
\* written and reported first
C23_EmittedInNameOrder ==
  FirstInstall =>
    \A role \in (IF selectedIde = "cursor" THEN {"guides", "agents"} ELSE {"agents"}) :
      \A m, n \in MdNames(role) :
        (StrLess(m, n) /\ MdNames("agents") \cap MdNames("guides") = {}) =>
          LastReport(OwnPath(m)) < LastReport(OwnPath(n))

\* C24: no output file of a section is written before all artifacts of the
\* section have been read: when the read of an artifact fails, the install
\* of its section has written nothing
C24_NothingWrittenBeforeAllRead ==
  (run = 1 /\ pc \in {"catch", "rejected"} /\ StartsWithAt(err, 1, "EACCES")) =>
    SectionOutputs \ DOMAIN StaleFiles = {}

\* C25: within one run no output path is written twice: the index, the
\* guides, the agents and the decisions of the selected sections go to
\* pairwise distinct paths, so every path is reported at most once
C25_DistinctOutputPaths ==
  (run = 1 /\ pc = "install") =>
    \A p \in DOMAIN files :
      Cardinality({j \in 1..Len(out) : IsReport(out[j], p)}) <= 1

\* the one directory of the target the chosen installer may write to
AllowedDir ==
  targetDir \o (IF selectedIde = "cursor" THEN "/.cursor/rules/"
                ELSE "/.github/instructions/")

\* a step of install creates or changes files only inside AllowedDir,
\* removes no file and leaves the section sources as they are; no other
\* step touches a file
WritesOnlyInside ==
  /\ DOMAIN files \subseteq DOMAIN files'
  /\ \A p \in Changed(files, files') :
       pc = "install" /\ StartsWithAt(p, 1, AllowedDir)
  /\ pc = "install" => src' = src

\* C26: an install writes only inside <target>/.cursor/rules (cursor) or
\* <target>/.github/instructions (copilot): no file elsewhere under the
\* target is created, modified or deleted and no source file is modified
C26_WritesOnlyInOutputDir == [][WritesOnlyInside]_vars

\* a copilot run has written its files beside a rule file that an earlier
\* cursor install left in the target
C26_Witness ==
  /\ pc = "done" /\ selectedIde = "copilot"
  /\ DOMAIN StaleFiles \subseteq DOMAIN files
  /\ \A p \in DOMAIN StaleFiles : files[p] = StaleFiles[p]
  /\ Cardinality(DOMAIN files) >= 4

\* the answer to "Which IDE?" is an integer between 1 and the number of
\* IDEs, the answer to "Which sections?" selects a section
IdeInputValid == Trim(ideInput) \in {"1", "2"}
SectionInputValid == Len(SelectSections(sectionInput)) > 0

\* C27: when the section input selects no valid section or the IDE input is
\* not an integer between 1 and the number of IDEs (out of range, empty or
\* not a number), install is never invoked, no file is written and the run
\* ends with a failure exit
C27_InvalidInputRejected ==
  (caller = "main" /\ run = 1 /\ ~(SectionInputValid /\ IdeInputValid)) =>
    /\ pc \notin {"loop", "install", "done"}
    /\ files = <<>>

\* the section under install has a section.json that is not valid JSON
MalformedConfig == tree.config.ex /\ ~tree.config.valid

\* C28: the cursor install of a section whose section.json is not valid
\* JSON fails before it writes: its step throws and leaves every file as
\* it was, those of the section included
C28_MalformedConfigWritesNothing ==
  [][(pc = "install" /\ selectedIde = "cursor" /\ MalformedConfig) =>
       (files' = files /\ pc' \in {"catch", "rejected"})]_vars

\* the install of a section has failed on its section.json while the
\* target holds the files that the install before it wrote for the section
C28_Witness ==
  /\ pc = "catch" /\ selectedIde = "cursor" /\ MalformedConfig
  /\ err = "Unexpected token in JSON"
  /\ run = 2 /\ SectionOutputs # {}

\* nothing makes the install of section sec throw: its files can be read,
\* under cursor its section.json can be parsed, its outputs can be written
CanInstall(sec) ==
  /\ \A role \in {"guides", "agents", "decisions"} :
       \A i \in 1..Len(src[sec][role].list) :
         src[sec][role].list[i] \notin UnreadableNames
  /\ selectedIde = "cursor" => (src[sec].config.ex => src[sec].config.valid)
  /\ \A p \in blocked :
       ~StartsWithAt(p, 1, AllowedDir \o sec \o "-")

\* C29: "Done!" is printed only when install has returned without error
\* for every selected section, one after the other in the order of the
\* selection, and never in a run in which an install threw
C29_DoneOnlyAfterAllInstalls ==
  (\E j \in 1..Len(out) : out[j] = "Done!") =>
    /\ pc = "done" /\ err = ""
    /\ Len(selectedSections) >= 1 /\ k = Len(selectedSections) + 1
    /\ \A i \in 1..Len(selectedSections) : CanInstall(selectedSections[i])

\* both sections were installed and the success message was printed
C29_Witness ==
  /\ pc = "done" /\ Len(selectedSections) = 2
  /\ out[Len(out) - 1] = "Done!"

\* the frontmatter of rule ends with the line alwaysApply: false
ApplyLast(rule) == EndsWith(Frontmatter(rule), "\nalwaysApply: false\n")
\* the globs that the section.json of the section under install gives
GivenGlobs ==
  ({ConfigGlob} \cup {OverrideOf(g) : g \in MdNames("guides")}) \ {""}

\* toMdcRule writes a description line exactly when it gets a description
\* and a globs line exactly when it gets a glob, alwaysApply: false last
RuleLinesAsGiven ==
  \A d \in {"", "About"}, g \in {"", "src/**"} :
    LET rule == toMdcRule("body", d, g)
    IN  /\ ApplyLast(rule)
        /\ CarriesDescription(rule) <=> (d # "")
        /\ CarriesGlob(rule) <=> (g # "")

\* C30: every rule file of the section that a cursor install leaves has
\* alwaysApply: false as the last attribute of its frontmatter, whatever
\* its role and the section.json; a globs line is there only for a glob
\* that section.json gives, a description line only for a description
C30_AlwaysApplyFalseLast ==
  /\ RuleLinesAsGiven
  /\ CursorDone =>
       \A p \in SectionOutputs :
         /\ ApplyLast(files[p])
         /\ CarriesGlob(files[p]) =>
              \E g \in GivenGlobs : HasAttribute(files[p], "globs: " \o g)

\* an index, a guide, an agent and the decisions were written under a
\* section.json with a default glob and an override
C30_Witness ==
  /\ CursorDone /\ tree.config = GlobConfig
  /\ IndexPath \in DOMAIN files /\ DecisionsPath(sectionName) \in DOMAIN files
  /\ Holders("guides", "a.md") # {} /\ Holders("agents", "guides.md") # {}

====
